---- MODULE Spec2Model ----
(***************************************************************************)
(* Model of src/src/handlers.ts: five request handlers (createProduct,     *)
(* getProduct, updateProduct, deleteProduct, listProduct) over one shared  *)
(* document table keyed by productID.  Every handler invocation occupies   *)
(* one request slot; a handler is split into steps where it is suspended   *)
(* before a store call completes (each `await docClient.X().promise()`),   *)
(* so that handlers of different requests interleave where the code can.   *)
(* What a handler does between two completions (parsing, validation, the   *)
(* call of v4(), building the item) belongs to the step that ends with the *)
(* next store call issued.                                                 *)
(***************************************************************************)
EXTENDS Integers, Sequences, FiniteSets, TLC

(* ---------------------------- bounds ---------------------------------- *)

\* number of request slots: handler invocations that can be in flight together
NumReq == 2

\* number of identifiers v4() can hand out in one behaviour
MaxIds == 2

Procs == 1..NumReq

(* ------------------------- JSON values -------------------------------- *)
\* A JSON scalar is <<type, text>>; a JSON object is a function from its
\* keys to values.
Str(s) == <<"string", s>>
Num(s) == <<"number", s>>
Bool(s) == <<"boolean", s>>
Obj == <<"object", "{}">>

\* the identifiers v4() returns, in the order it returns them
IdOf(n) == IF n = 1 THEN "u1" ELSE IF n = 2 THEN "u2" ELSE IF n = 3 THEN "u3"
           ELSE IF n = 4 THEN "u4" ELSE "u5"

Ids == {IdOf(n) : n \in 1..MaxIds}

\* identifiers a caller may put in the request path
PathIds == Ids \cup {"unknown-id"}

(* ------------------------ request bodies ------------------------------ *)
ValidFields ==
  [name |-> Str("Pen"), description |-> Str("Blue ink"),
   price |-> Num("1.5"), available |-> Bool("true")]

\* a valid body that also carries a productID of the caller's choosing
WithProductID(pid) ==
  [name |-> Str("Ink"), description |-> Str("Black ink"),
   price |-> Num("2"), available |-> Bool("false"), productID |-> Str(pid)]

\* valid only through yup's casts: number -> string, string -> number/boolean
CastFields ==
  [name |-> Num("7"), description |-> Str("x"),
   price |-> Str("1.5"), available |-> Str("true")]

\* three fields missing, one of the wrong type
BadFields == [price |-> Str("not-a-number")]

\* wrong types that no cast repairs, and an empty required string
WrongFields ==
  [name |-> Str(""), description |-> Obj,
   price |-> Bool("true"), available |-> Num("1.5")]

ObjectBody(f) == [kind |-> "object", fields |-> f]
MalformedBody == [kind |-> "malformed", fields |-> << >>]
ScalarBody == [kind |-> "scalar", fields |-> << >>]
NoBody == [kind |-> "none", fields |-> << >>]

Bodies ==
  { ObjectBody(ValidFields), ObjectBody(WithProductID("u1")),
    ObjectBody(WithProductID("")), ObjectBody(CastFields),
    ObjectBody(BadFields), ObjectBody(WrongFields),
    MalformedBody, ScalarBody }

(* ------------------------- module constants --------------------------- *)
headers == [contentType |-> "application/json"]

SchemaFields == <<"name", "description", "price", "available">>

SchemaType(f) ==
  IF f = "price" THEN "number" ELSE IF f = "available" THEN "boolean" ELSE "string"

(* --------------------------- errors ----------------------------------- *)
HttpError(statusCode, body) ==
  [type |-> "HttpError", statusCode |-> statusCode, message |-> body]

ValidationError(errors) == [type |-> "ValidationError", errors |-> errors]

SyntaxError == [type |-> "SyntaxError", message |-> "Unexpected token"]

\* what a rejected docClient call throws: an error without a status (the
\* request never reached the service) or a service error, which carries the
\* HTTP status of the service's answer
NetworkingError == [type |-> "AWSError", code |-> "NetworkingError"]

ThrottlingError ==
  [type |-> "AWSError", code |-> "ProvisionedThroughputExceededException",
   statusCode |-> 400]

StoreErrors == {NetworkingError, ThrottlingError}

Response(statusCode, body) ==
  [statusCode |-> statusCode, headers |-> headers, body |-> body]

NoResp == [none |-> TRUE]

NotFoundBody == [error |-> "not found"]

(* ------------------------ schema validation --------------------------- *)
\* texts that JavaScript's unary + / parseFloat turn into a number
NumericTexts == {"0", "1", "2", "7", "1.5"}

\* texts yup's boolean cast accepts: /^(true|1)$/i and /^(false|0)$/i
BooleanTexts == {"true", "false", "1", "0"}

\* yup.string().required(): numbers and booleans are cast with toString();
\* an object keeps its type and fails the type check; "" fails required()
StringFieldError(v) ==
  IF v[1] = "object" THEN "typeError"
  ELSE IF v[1] = "string" /\ v[2] = "" THEN "required"
  ELSE "ok"

\* yup.number().required(): strings are cast with +text, anything else with
\* parseFloat; a NaN result fails the type check
NumberFieldError(v) ==
  IF v[1] = "number" THEN "ok"
  ELSE IF v[1] = "string" /\ v[2] \in NumericTexts THEN "ok"
  ELSE "typeError"

\* yup.boolean().required(): String(value) matching true|1|false|0 is cast
BooleanFieldError(v) ==
  IF v[1] = "boolean" THEN "ok"
  ELSE IF v[1] \in {"string", "number"} /\ v[2] \in BooleanTexts THEN "ok"
  ELSE "typeError"

\* the outcome of validating field f of the object `fields`
FieldError(fields, f) ==
  IF f \notin DOMAIN fields THEN "required"
  ELSE IF SchemaType(f) = "number" THEN NumberFieldError(fields[f])
  ELSE IF SchemaType(f) = "boolean" THEN BooleanFieldError(fields[f])
  ELSE StringFieldError(fields[f])

IsViolation(e) == e[2] # "ok"

FieldResults(fields) ==
  [i \in 1..Len(SchemaFields) |-> <<SchemaFields[i], FieldError(fields, SchemaFields[i])>>]

\* a bug: validation that stops at the first violation (abortEarly: true)
ValidateAbortEarly(value) ==
  IF value.kind # "object" THEN << <<"this", "typeError">> >>
  ELSE LET all == SelectSeq(FieldResults(value.fields), IsViolation)
       IN  IF all = << >> THEN << >> ELSE << Head(all) >>

\* schema.validate(reqBody, { abortEarly: false }): the messages of all
\* violations, in schema order; << >> when the value passes
Validate(value) ==
  IF value.kind # "object" THEN << <<"this", "typeError">> >>
  ELSE SelectSeq(FieldResults(value.fields), IsViolation)

\* JSON.parse(event.body)
JSONParse(body) ==
  IF body.kind = "malformed" THEN [ok |-> FALSE, error |-> SyntaxError]
  ELSE [ok |-> TRUE, value |-> body]

(* ------------------------- the document table ------------------------- *)
\* docClient.get: the output has an Item only when the key is present
GetItem(st, id) ==
  IF Str(id) \in DOMAIN st THEN [Item |-> st[Str(id)]] ELSE << >>

\* docClient.put: the item replaces whatever is stored under its productID
PutItem(st, item) ==
  [k \in DOMAIN st \cup {item["productID"]} |->
     IF k = item["productID"] THEN item ELSE st[k]]

\* docClient.delete
DeleteItem(st, id) == [k \in DOMAIN st \ {Str(id)} |-> st[k]]

\* a bug: a scan that returns one page of one item
ScanOnePage(st) ==
  IF DOMAIN st = {} THEN {} ELSE {st[CHOOSE k \in DOMAIN st : TRUE]}

\* docClient.scan: every item of the table (array order is not modelled)
ScanItems(st) == {st[k] : k \in DOMAIN st}

(* --------------------------- helpers ---------------------------------- *)
\* a bug: HttpError thrown without its body (the constructor's default {})
FetchNoBody(st, id) ==
  LET output == GetItem(st, id)
  IN  IF "Item" \notin DOMAIN output
      THEN [ok |-> FALSE, error |-> HttpError(404, << >>)]
      ELSE [ok |-> TRUE, item |-> output.Item]

FetchProductById(st, id) ==
  LET output == GetItem(st, id)
  IN  IF "Item" \notin DOMAIN output
      THEN [ok |-> FALSE, error |-> HttpError(404, NotFoundBody)]
      ELSE [ok |-> TRUE, item |-> output.Item]

HandleError(e) ==
  IF e.type = "ValidationError" THEN Response(400, [errors |-> e.errors])
  ELSE IF e.type = "SyntaxError"
       THEN Response(400, [errors |-> <<"invalid request body format : ", e.message>>])
  ELSE IF e.type = "HttpError" THEN Response(e.statusCode, e.message)
  ELSE e

\* the catch block of getProduct
GetCatch(e) ==
  IF e.type = "HttpError" THEN Response(e.statusCode, e.message) ELSE e

\* a bug: the spread written after productID, so the body's productID wins
ProductBodyWins(fields, id) ==
  [k \in DOMAIN fields \cup {"productID"} |->
     IF k \in DOMAIN fields THEN fields[k] ELSE Str(id)]

\* { ...reqBody, productID: v4() }
NewProduct(fields, id) ==
  [k \in DOMAIN fields \cup {"productID"} |->
     IF k = "productID" THEN Str(id) ELSE fields[k]]

\* { ...reqBody, productID: id }
UpdatedProduct(fields, id) ==
  [k \in DOMAIN fields \cup {"productID"} |->
     IF k = "productID" THEN Str(id) ELSE fields[k]]

\* JSON.parse then schema.validate: the value, or the error thrown
ParseAndValidate(body) ==
  LET parsed == JSONParse(body)
  IN  IF ~parsed.ok THEN [ok |-> FALSE, error |-> parsed.error]
      ELSE IF Validate(parsed.value) # << >>
           THEN [ok |-> FALSE, error |-> ValidationError(Validate(parsed.value))]
      ELSE [ok |-> TRUE, value |-> parsed.value]

\* a bug: the body is parsed and validated before the existence check
PrepareValidateFirst(st, id, body) ==
  LET checked == ParseAndValidate(body)
      found == FetchProductById(st, id)
  IN  IF ~checked.ok THEN [ok |-> FALSE, error |-> checked.error]
      ELSE IF ~found.ok THEN [ok |-> FALSE, error |-> found.error]
      ELSE [ok |-> TRUE, product |-> UpdatedProduct(checked.value.fields, id)]

\* updateProduct from its existence check to the product it will put
PrepareUpdate(st, id, body) ==
  LET found == FetchProductById(st, id)
      checked == ParseAndValidate(body)
  IN  IF ~found.ok THEN [ok |-> FALSE, error |-> found.error]
      ELSE IF ~checked.ok THEN [ok |-> FALSE, error |-> checked.error]
      ELSE [ok |-> TRUE, product |-> UpdatedProduct(checked.value.fields, id)]

\* createProduct up to the product it will put
PrepareCreate(body, id) ==
  LET checked == ParseAndValidate(body)
  IN  IF ~checked.ok THEN [ok |-> FALSE, error |-> checked.error]
      ELSE [ok |-> TRUE, product |-> NewProduct(checked.value.fields, id)]

(* ----------------------------- state ---------------------------------- *)
VARIABLES
  store,        \* the table: productID key -> item
  nextId,       \* how many identifiers v4() has handed out, plus one
  handler,      \* per request slot: the handler invoked last ("none" before)
  pathId,       \* per slot: event.pathParameters.id
  reqBody,      \* per slot: event.body, once the handler has read it
  pc,           \* per slot: the store call the handler is suspended before
  product,      \* per slot: the local `product` of createProduct / updateProduct
  resp,         \* per slot: what the handler returned
  afterDelete,  \* history, per slot: at invocation a delete of pathId had answered 204
  deleted204,   \* history: path ids some deleteProduct has deleted and answered 204 for
  created201    \* history: productIDs createProduct has returned with a 201

vars ==
  <<store, nextId, handler, pathId, reqBody, pc, product, resp,
    afterDelete, deleted204, created201>>

Handlers == {"create", "get", "update", "delete", "list"}

NoProduct == << >>

Status(r) == IF "statusCode" \in DOMAIN r THEN r.statusCode ELSE 0

\* the response is one built with `headers`, not a raw error object
IsResponse(r) == "statusCode" \in DOMAIN r /\ "headers" \in DOMAIN r

Init ==
  /\ store = << >>
  /\ nextId = 1
  /\ handler = [p \in Procs |-> "none"]
  /\ pathId = [p \in Procs |-> "none"]
  /\ reqBody = [p \in Procs |-> NoBody]
  /\ pc = [p \in Procs |-> "idle"]
  /\ product = [p \in Procs |-> NoProduct]
  /\ resp = [p \in Procs |-> NoResp]
  /\ afterDelete = [p \in Procs |-> FALSE]
  /\ deleted204 = {}
  /\ created201 = {}

\* the platform invokes a handler with an event, in the first slot that is
\* free; a slot whose handler has returned or thrown is free again
Invoke(p) ==
  /\ pc[p] \in {"idle", "done", "thrown"}
  /\ \A q \in Procs : q < p => pc[q] \notin {"idle", "done", "thrown"}
  /\ \E h \in Handlers :
     \E id \in (IF h \in {"get", "update", "delete"} THEN PathIds ELSE {"none"}) :
       /\ handler' = [handler EXCEPT ![p] = h]
       /\ pathId' = [pathId EXCEPT ![p] = id]
       /\ afterDelete' = [afterDelete EXCEPT ![p] = (h = "get" /\ id \in deleted204)]
  /\ pc' = [pc EXCEPT ![p] = "start"]
  /\ reqBody' = [reqBody EXCEPT ![p] = NoBody]
  /\ product' = [product EXCEPT ![p] = NoProduct]
  /\ resp' = [resp EXCEPT ![p] = NoResp]
  /\ UNCHANGED <<store, nextId, deleted204, created201>>

\* the handler of slot p returns r
Return(p, r) ==
  /\ resp' = [resp EXCEPT ![p] = r]
  /\ pc' = [pc EXCEPT ![p] = "done"]

\* createProduct until it is suspended at its put: the body is parsed and
\* validated, v4() is called and the product built
CreatePrepare(p) ==
  /\ pc[p] = "start" /\ handler[p] = "create"
  /\ \E b \in Bodies :
       /\ reqBody' = [reqBody EXCEPT ![p] = b]
       /\ LET prep == PrepareCreate(b, IdOf(nextId))
          IN  IF ~prep.ok
              THEN /\ Return(p, HandleError(prep.error))
                   /\ UNCHANGED <<nextId, product>>
              ELSE /\ nextId <= MaxIds
                   /\ nextId' = nextId + 1
                   /\ product' = [product EXCEPT ![p] = prep.product]
                   /\ pc' = [pc EXCEPT ![p] = "put"]
                   /\ UNCHANGED resp
  /\ UNCHANGED <<store, handler, pathId, afterDelete, deleted204, created201>>

\* the put of createProduct completes and the handler returns
CreatePut(p) ==
  /\ pc[p] = "put" /\ handler[p] = "create"
  /\ \/ /\ store' = PutItem(store, product[p])
        /\ created201' = created201 \cup {product[p]["productID"]}
        /\ Return(p, Response(201, product[p]))
     \/ /\ \E e \in StoreErrors : Return(p, HandleError(e))
        /\ UNCHANGED <<store, created201>>
  /\ UNCHANGED <<nextId, handler, pathId, reqBody, product, afterDelete, deleted204>>

GetProduct(p) ==
  /\ pc[p] = "start" /\ handler[p] = "get"
  /\ \/ LET found == FetchProductById(store, pathId[p])
        IN  Return(p, IF found.ok THEN Response(200, found.item)
                      ELSE GetCatch(found.error))
     \/ \E e \in StoreErrors : Return(p, GetCatch(e))
  /\ UNCHANGED <<store, nextId, handler, pathId, reqBody, product,
                 afterDelete, deleted204, created201>>

UpdateFetch(p) ==
  /\ pc[p] = "start" /\ handler[p] = "update"
  /\ \E b \in Bodies :
       /\ reqBody' = [reqBody EXCEPT ![p] = b]
       /\ \/ LET prep == PrepareUpdate(store, pathId[p], b)
             IN  IF prep.ok
                 THEN /\ product' = [product EXCEPT ![p] = prep.product]
                      /\ pc' = [pc EXCEPT ![p] = "put"]
                      /\ UNCHANGED resp
                 ELSE /\ Return(p, HandleError(prep.error))
                      /\ UNCHANGED product
          \/ /\ \E e \in StoreErrors : Return(p, HandleError(e))
             /\ UNCHANGED product
  /\ UNCHANGED <<store, nextId, handler, pathId, afterDelete,
                 deleted204, created201>>

UpdatePut(p) ==
  /\ pc[p] = "put" /\ handler[p] = "update"
  /\ \/ /\ store' = PutItem(store, product[p])
        /\ Return(p, Response(200, product[p]))
     \/ /\ \E e \in StoreErrors : Return(p, HandleError(e))
        /\ UNCHANGED store
  /\ UNCHANGED <<nextId, handler, pathId, reqBody, product, afterDelete,
                 deleted204, created201>>

DeleteFetch(p) ==
  /\ pc[p] = "start" /\ handler[p] = "delete"
  /\ \/ LET found == FetchProductById(store, pathId[p])
        IN  IF found.ok
            THEN /\ pc' = [pc EXCEPT ![p] = "delete"]
                 /\ UNCHANGED resp
            ELSE Return(p, HandleError(found.error))
     \/ \E e \in StoreErrors : Return(p, HandleError(e))
  /\ UNCHANGED <<store, nextId, handler, pathId, reqBody, product,
                 afterDelete, deleted204, created201>>

DeleteDelete(p) ==
  /\ pc[p] = "delete" /\ handler[p] = "delete"
  /\ \/ /\ store' = DeleteItem(store, pathId[p])
        /\ deleted204' = deleted204 \cup {pathId[p]}
        /\ Return(p, Response(204, ""))
     \/ /\ \E e \in StoreErrors : Return(p, HandleError(e))
        /\ UNCHANGED <<store, deleted204>>
  /\ UNCHANGED <<nextId, handler, pathId, reqBody, product, afterDelete, created201>>

\* listProduct has no try/catch: a rejected scan rejects the handler
ListProduct(p) ==
  /\ pc[p] = "start" /\ handler[p] = "list"
  /\ \/ Return(p, Response(200, ScanItems(store)))
     \/ /\ pc' = [pc EXCEPT ![p] = "thrown"]
        /\ UNCHANGED resp
  /\ UNCHANGED <<store, nextId, handler, pathId, reqBody, product,
                 afterDelete, deleted204, created201>>

Next ==
  \E p \in Procs :
    \/ Invoke(p)
    \/ CreatePrepare(p)
    \/ CreatePut(p)
    \/ GetProduct(p)
    \/ UpdateFetch(p)
    \/ UpdatePut(p)
    \/ DeleteFetch(p)
    \/ DeleteDelete(p)
    \/ ListProduct(p)

Spec == Init /\ [][Next]_vars

(* ------------------------- steps, as seen in a transition ------------- *)
\* slot p's handler returns in this step
Returns(p) == pc[p] \in {"start", "put", "delete"} /\ pc'[p] = "done"

CreatePrepareStep(p) == handler[p] = "create" /\ pc[p] = "start" /\ pc'[p] # "start"
CreatePutStep(p) == handler[p] = "create" /\ pc[p] = "put" /\ pc'[p] # "put"
GetStep(p) == handler[p] = "get" /\ pc[p] = "start" /\ pc'[p] # "start"
ListStep(p) == handler[p] = "list" /\ pc[p] = "start" /\ pc'[p] # "start"
UpdateFetchStep(p) == handler[p] = "update" /\ pc[p] = "start" /\ pc'[p] # "start"
UpdatePutStep(p) == handler[p] = "update" /\ pc[p] = "put" /\ pc'[p] # "put"
DeleteFetchStep(p) == handler[p] = "delete" /\ pc[p] = "start" /\ pc'[p] # "start"
DeleteDeleteStep(p) == handler[p] = "delete" /\ pc[p] = "delete" /\ pc'[p] # "delete"

\* the step leaves every record stored under a key other than k as it was
OnlyKeyChanges(k) ==
  /\ DOMAIN store' \ {k} = DOMAIN store \ {k}
  /\ \A j \in DOMAIN store \ {k} : store'[j] = store[j]

\* the body is parseable JSON that satisfies the schema
ValidBody(b) ==
  /\ b.kind = "object"
  /\ \A i \in 1..Len(SchemaFields) : FieldError(b.fields, SchemaFields[i]) = "ok"

Done(p, h) == handler[p] = h /\ pc[p] = "done" /\ IsResponse(resp[p])

(* ------------------------------ C1 ------------------------------------ *)
\* the identifiers v4() has handed out so far
HandedOut == {Str(IdOf(n)) : n \in 1..(nextId - 1)}

\* C1: a createProduct whose body is valid goes on to its put with a record
\* whose productID is the non-empty identifier v4() generated, whatever
\* productID the body carried, an identifier that is the key of no stored
\* record, was returned by no create and is held by no other create in
\* flight; when the put completes it answers 201 with that record, stores
\* exactly that record under that identifier, which is still the key of no
\* record, and changes no other record.
C1_CreateFresh ==
  [][\A p \in Procs :
       /\ CreatePrepareStep(p) =>
            IF ValidBody(reqBody'[p])
            THEN LET r == product'[p]
                     k == r["productID"]
                 IN  /\ pc'[p] = "put"
                     /\ k = Str(IdOf(nextId)) /\ k # Str("")
                     /\ k \notin HandedOut /\ k \in HandedOut'
                     /\ k \notin DOMAIN store
                     /\ k \notin created201
                     /\ \A q \in Procs \ {p} :
                          (handler[q] = "create" /\ pc[q] = "put") =>
                             product[q]["productID"] # k
                     /\ \A f \in DOMAIN reqBody'[p].fields \ {"productID"} :
                          r[f] = reqBody'[p].fields[f]
            ELSE pc'[p] = "done" /\ Status(resp'[p]) # 201
       /\ (CreatePutStep(p) /\ IsResponse(resp'[p])) =>
            LET r == resp'[p].body
                k == r["productID"]
            IN  /\ Status(resp'[p]) = 201
                /\ r = product[p]
                /\ k \in HandedOut /\ k # Str("")
                /\ k \notin DOMAIN store
                /\ k \notin created201
                /\ k \in DOMAIN store' /\ store'[k] = r
                /\ OnlyKeyChanges(k)]_vars

\* a create answered 201 with the second identifier for a body that carried
\* the first one as its productID, while the create that was handed the
\* first identifier is still suspended at its put
C1_Witness ==
  \E p, q \in Procs :
    /\ Done(q, "create") /\ Status(resp[q]) = 201
    /\ resp[q].body["productID"] = Str(IdOf(2))
    /\ reqBody[q] = ObjectBody(WithProductID(IdOf(1)))
    /\ handler[p] = "create" /\ pc[p] = "put"
    /\ product[p]["productID"] = Str(IdOf(1))
    /\ DOMAIN store = {Str(IdOf(2))}

(* ------------------------------ C2 ------------------------------------ *)
\* C2: a getProduct invoked after a deleteProduct answered 204 for the same
\* id answers 404.
C2_GetAfterDelete404 ==
  \A p \in Procs :
    (Done(p, "get") /\ afterDelete[p]) => Status(resp[p]) = 404

(* ------------------------------ C3 ------------------------------------ *)
\* C3: when its store read completes, getProduct answers 404 with the body
\* {"error":"not found"} exactly when no record is stored under the path id
\* at the read, and otherwise 200 with the record stored under that id.
C3_GetReadsStore ==
  [][\A p \in Procs : (GetStep(p) /\ IsResponse(resp'[p])) =>
       IF Str(pathId[p]) \in DOMAIN store
       THEN resp'[p] = Response(200, store[Str(pathId[p])])
       ELSE resp'[p] = Response(404, NotFoundBody)]_vars

\* one get has answered 404 and another 200
C3_Witness ==
  \E p, q \in Procs :
    /\ Done(p, "get") /\ Status(resp[p]) = 404 /\ resp[p].body = NotFoundBody
    /\ Done(q, "get") /\ Status(resp[q]) = 200
    /\ resp[q].body["productID"] = Str(pathId[q])

(* ------------------------------ C4 ------------------------------------ *)
\* C4: an updateProduct that answers 200 for path id i returns and stores a
\* record whose productID is i, also when the body carried another
\* productID, and changes no record under any other key.
C4_UpdateKeepsId ==
  [][\A p \in Procs : (UpdatePutStep(p) /\ IsResponse(resp'[p])) =>
       LET k == Str(pathId[p])
       IN  /\ Status(resp'[p]) = 200
           /\ resp'[p].body["productID"] = k
           /\ k \in DOMAIN store' /\ store'[k] = resp'[p].body
           /\ OnlyKeyChanges(k)
           /\ \A f \in DOMAIN reqBody[p].fields \ {"productID"} :
                resp'[p].body[f] = reqBody[p].fields[f]]_vars

\* an update answered 200 for a body carrying the productID of another
\* stored record
C4_Witness ==
  \E p \in Procs :
    /\ Done(p, "update") /\ Status(resp[p]) = 200
    /\ "productID" \in DOMAIN reqBody[p].fields
    /\ reqBody[p].fields["productID"] # Str(pathId[p])
    /\ reqBody[p].fields["productID"] \in DOMAIN store
    /\ Str(pathId[p]) \in DOMAIN store

(* ------------------------------ C5 ------------------------------------ *)
\* C5: when no record is stored under the path id at its existence check
\* (and the check completes), updateProduct answers 404 whatever the body
\* is, returns at that step and leaves the store unchanged.
C5_UpdateMissing404 ==
  [][\A p \in Procs :
       (UpdateFetchStep(p) /\ Str(pathId[p]) \notin DOMAIN store) =>
         /\ pc'[p] = "done"
         /\ store' = store
         /\ IsResponse(resp'[p]) => resp'[p] = Response(404, NotFoundBody)]_vars

\* an update of a missing id answered 404 although its body was not JSON
C5_Witness ==
  \E p \in Procs :
    /\ Done(p, "update") /\ Status(resp[p]) = 404
    /\ reqBody[p] = MalformedBody

(* ------------------------------ C6 ------------------------------------ *)
\* the violations of the schema in an object, one per violating field
Violations(fields) ==
  {<<SchemaFields[i], FieldError(fields, SchemaFields[i])>> :
     i \in {j \in 1..Len(SchemaFields) : FieldError(fields, SchemaFields[j]) # "ok"}}

\* C6: createProduct, and updateProduct for an id that has a record, answer
\* 400 when the body is not parseable JSON or fails the schema (unless the
\* store rejects the existence check); a validation response lists every
\* violation, not only the first; and a handler that answers with a 400
\* response issues no put: it does so at its first step, for a body that is
\* not valid, and leaves the store unchanged.
C6_BadBody400 ==
  [][\A p \in Procs :
       /\ ( /\ CreatePrepareStep(p) \/ (UpdateFetchStep(p) /\ Str(pathId[p]) \in DOMAIN store)
            /\ ~ValidBody(reqBody'[p])
            /\ IsResponse(resp'[p]) ) =>
              /\ Status(resp'[p]) = 400
              /\ pc'[p] = "done"
              /\ reqBody'[p].kind = "object" =>
                   \A v \in Violations(reqBody'[p].fields) :
                     \E i \in DOMAIN resp'[p].body.errors : resp'[p].body.errors[i] = v
              /\ reqBody'[p].kind = "scalar" => resp'[p].body.errors # << >>
       /\ (Returns(p) /\ IsResponse(resp'[p]) /\ Status(resp'[p]) = 400) =>
              /\ pc[p] = "start"
              /\ store' = store
              /\ ~ValidBody(reqBody'[p])]_vars

\* a create answered 400 listing the four violations of a body, and an
\* update of a stored record answered 400 for a body that is not JSON
C6_Witness ==
  \E p, q \in Procs :
    /\ Done(p, "create") /\ Status(resp[p]) = 400
    /\ reqBody[p] = ObjectBody(BadFields)
    /\ Len(resp[p].body.errors) = 4
    /\ Done(q, "update") /\ Status(resp[q]) = 400
    /\ reqBody[q] = MalformedBody
    /\ Str(pathId[q]) \in DOMAIN store

(* ------------------------------ C7 ------------------------------------ *)
\* C7: every value a handler returns carries the header
\* content-type: application/json.
C7_AlwaysHeaders ==
  \A p \in Procs :
    pc[p] = "done" => ("headers" \in DOMAIN resp[p] /\ resp[p].headers = headers)

(* ------------------------------ C8 ------------------------------------ *)
\* C8: when its scan completes, listProduct answers 200 with exactly the
\* records stored at the scan; every productID a createProduct has returned
\* with a 201 and no deleteProduct has deleted is among them.
C8_ListIsStore ==
  [][\A p \in Procs : (ListStep(p) /\ pc'[p] = "done") =>
       /\ Status(resp'[p]) = 200
       /\ \A k \in DOMAIN store : store[k] \in resp'[p].body
       /\ \A r \in resp'[p].body : \E k \in DOMAIN store : store[k] = r
       /\ \A k \in created201 :
            (k[2] \notin deleted204) => \E r \in resp'[p].body : r["productID"] = k]_vars

\* a list answered with two records, both created and neither deleted
C8_Witness ==
  \E p \in Procs :
    /\ Done(p, "list") /\ Status(resp[p]) = 200
    /\ Cardinality(resp[p].body) = 2
    /\ Cardinality(created201) = 2
    /\ deleted204 = {}

(* ------------------------------ C9 ------------------------------------ *)
\* C9: every stored record has a non-empty string productID, equal to the
\* key it is stored under.
C9_KeyIsProductID ==
  \A k \in DOMAIN store :
    /\ "productID" \in DOMAIN store[k]
    /\ store[k]["productID"] = k
    /\ k[1] = "string" /\ k[2] # ""

\* two records are stored, one of them written by an update whose body
\* carried an empty productID
C9_Witness ==
  /\ Cardinality(DOMAIN store) = 2
  /\ \E p \in Procs :
       /\ Done(p, "update") /\ Status(resp[p]) = 200
       /\ reqBody[p] = ObjectBody(WithProductID(""))
       /\ store[Str(pathId[p])] = resp[p].body

(* ------------------------------ C10 ----------------------------------- *)
\* C10: getProduct and listProduct never change the store; deleteProduct
\* and updateProduct change at most the record under their path id;
\* createProduct adds exactly one record when it answers 201, changes
\* nothing otherwise and never changes a record that was stored; the steps
\* before a handler's put or delete write nothing, and a step that answers
\* with status 400 or 404 (a response, or a service error passed through)
\* leaves the store as it was.
C10_Frame ==
  [][\A p \in Procs :
       /\ (GetStep(p) \/ ListStep(p)) => store' = store
       /\ (DeleteFetchStep(p) \/ UpdateFetchStep(p)) => store' = store
       /\ (DeleteDeleteStep(p) \/ UpdatePutStep(p)) => OnlyKeyChanges(Str(pathId[p]))
       /\ CreatePrepareStep(p) => store' = store
       /\ CreatePutStep(p) =>
            IF Status(resp'[p]) = 201
            THEN /\ Cardinality(DOMAIN store') = Cardinality(DOMAIN store) + 1
                 /\ \A k \in DOMAIN store : k \in DOMAIN store' /\ store'[k] = store[k]
            ELSE store' = store
       /\ (Returns(p) /\ Status(resp'[p]) \in {400, 404}) => store' = store]_vars

\* with two records stored, a delete has removed one and answered 204 while
\* an update of the other has answered 400
C10_Witness ==
  \E p, q \in Procs :
    /\ Done(p, "delete") /\ Status(resp[p]) = 204
    /\ Done(q, "update") /\ Status(resp[q]) = 400
    /\ pathId[p] # pathId[q]
    /\ Str(pathId[q]) \in DOMAIN store
    /\ Str(pathId[p]) \notin DOMAIN store

====
